---- MODULE Spec2Model ----
\* A model of src/parser/ozon_parser.py: OzonParser (the batch coordinator) and
\* OzonWorker (one fetch worker with its retry loop).  The collaborators that are
\* not part of the file (SeleniumManager, the helpers, the settings) appear as
\* nondeterministic outcomes and as settings drawn in Init.
EXTENDS Integers, Sequences, FiniteSets, TLC

\* ------------------------------------------------------------------ bounds
MaxArticles == 3        \* longest input list
NumIds == 3             \* distinct identifier values
MaxWorkersCfg == 2      \* largest settings.MAX_WORKERS
MaxPerWorkerCfg == 2    \* largest settings.MAX_ARTICLES_PER_WORKER
MaxRetriesCfg == 2      \* largest settings.MAX_RETRIES
NumPrices == 1          \* distinct extracted price records

Ids == 1..NumIds
Prices == 1..NumPrices

RECURSIVE SeqsUpTo(_, _)
SeqsUpTo(S, n) ==
    IF n = 0 THEN {<< >>}
    ELSE LET shorter == SeqsUpTo(S, n - 1)
         IN shorter \cup {Append(s, x) : s \in {t \in shorter : Len(t) = n - 1}, x \in S}

\* Identifiers are only ever compared for equality (as dictionary keys), so the
\* input lists are taken up to renaming: a new value is the next unused number.
FirstUse(s) ==
    \A k \in DOMAIN s : \A v \in 1..(s[k] - 1) : \E j \in 1..(k - 1) : s[j] = v

Max(S) == CHOOSE x \in S : \A y \in S : y <= x
Min2(a, b) == IF a <= b THEN a ELSE b
CeilDiv(a, b) == (a + b - 1) \div b

\* ------------------------------------------------------------------ state
VARIABLES
    MAX_WORKERS,              \* settings.MAX_WORKERS
    MAX_ARTICLES_PER_WORKER,  \* settings.MAX_ARTICLES_PER_WORKER
    MAX_RETRIES,              \* settings.MAX_RETRIES
    articles,                 \* the argument of OzonParser.parse_articles
    pc,                       \* where the call of OzonParser.parse_articles stands
    worker_groups,            \* the groups _distribute_articles returned
    pool,                     \* TRUE once a ThreadPoolExecutor was created
    workers,                  \* the OzonWorker of every task, by group number
    all_results,              \* all_results of _parse_with_multiple_workers
    collected,                \* the futures as_completed has yielded so far
    returned,                 \* the list the call returned
    navigated,                \* input positions a navigation was started for
    call,                     \* one call of parse_single_article, with its history
    extraction                \* one call of extract_price_info

vars == <<MAX_WORKERS, MAX_ARTICLES_PER_WORKER, MAX_RETRIES, articles, pc,
          worker_groups, pool, workers, all_results, collected, returned,
          navigated, call, extraction>>

\* the calls followed on their own, which a run of parse_articles leaves alone
apart == <<call, extraction>>

settings == <<MAX_WORKERS, MAX_ARTICLES_PER_WORKER, MAX_RETRIES>>

\* Optional values: None, or a one-element sequence holding the value.
None == << >>
Some(x) == <<x>>

\* ArticleResult(article=..., success=True, price_info=...)
SuccessResult(article, price_info) ==
    [article |-> article, success |-> TRUE, price_info |-> Some(price_info), error |-> None]

\* ArticleResult(article=..., success=False, error=...)
FailureResult(article, error) ==
    [article |-> article, success |-> FALSE, price_info |-> None, error |-> Some(error)]

\* ------------------------------------------------------------------ OzonParser
\* articles[i:j] of Python, with 0-based i and exclusive j
Slice(s, i, j) == SubSeq(s, i + 1, Min2(j, Len(s)))

\* the test that ends the loop of _distribute_articles early:
\* if len(groups) >= settings.MAX_WORKERS (PoolFullStrict: the test with > )
PoolFullStrict(groups) == Len(groups) > MAX_WORKERS
PoolFull(groups) == Len(groups) >= MAX_WORKERS

\* the loop of _distribute_articles, from offset i on
RECURSIVE DistributeLoop(_, _, _)
DistributeLoop(arts, i, groups) ==
    IF i >= Len(arts) THEN groups
    ELSE LET group == Slice(arts, i, i + MAX_ARTICLES_PER_WORKER)
             groups2 == Append(groups, group)
         IN IF PoolFull(groups2) THEN groups2
            ELSE DistributeLoop(arts, i + MAX_ARTICLES_PER_WORKER, groups2)

\* the same slicing with the early exit left out
RECURSIVE ChunkAll(_, _)
ChunkAll(arts, i) ==
    IF i >= Len(arts) THEN << >>
    ELSE <<Slice(arts, i, i + MAX_ARTICLES_PER_WORKER)>>
         \o ChunkAll(arts, i + MAX_ARTICLES_PER_WORKER)

DistributeWithoutCap(arts) ==
    IF Len(arts) <= MAX_ARTICLES_PER_WORKER THEN <<arts>>
    ELSE ChunkAll(arts, 0)
_distribute_articles(arts) ==
    IF Len(arts) <= MAX_ARTICLES_PER_WORKER THEN <<arts>>
    ELSE DistributeLoop(arts, 0, << >>)

\* result_dict = {result.article: result for result in results}: a later result
\* of the same article replaces an earlier one
ResultDict(results) ==
    [a \in {results[j].article : j \in DOMAIN results} |->
        results[Max({j \in DOMAIN results : results[j].article = a})]]

\* the merge of _parse_with_multiple_workers (SortUnordered: all_results
\* returned as collected)
SortUnordered(results, original_articles) == results
_sort_results_by_original_order(results, original_articles) ==
    LET result_dict == ResultDict(results)
        present == SelectSeq(original_articles, LAMBDA a : a \in DOMAIN result_dict)
    IN [k \in DOMAIN present |-> result_dict[present[k]]]

\* the list the single-worker path hands to its worker
SingleWorkerInput(groups) == articles

\* ------------------------------------------------------------------ OzonWorker
\* OzonWorker() for one task.  group is the list the task was given and base the
\* number of input positions before the group's first one; attempt, navs and
\* sleeps count within the running call of parse_single_article; succeeded
\* tells whether the latest attempt extracted a record; failed names the method
\* whose exception ended the task.
NewWorker(group, base) ==
    [pc |-> "init", group |-> group, base |-> base, driver |-> FALSE, open |-> FALSE,
     i |-> 1, attempt |-> 0, navs |-> 0, sleeps |-> 0, succeeded |-> FALSE,
     results |-> << >>, failed |-> "", closes |-> 0]

\* what SeleniumManager.setup_driver may do: return a driver, return nothing,
\* raise, or raise after part of the session was set up
InitOutcomes == {"driver", "none", "raises", "raises_partial"}

\* OzonWorker.close (CloseWithoutRelease: a close that leaves the session open)
CloseWithoutRelease(worker) == [worker EXCEPT !.closes = @ + 1]
Close(worker) == [worker EXCEPT !.open = FALSE, !.closes = @ + 1]

\* the end of the try block of _parse_worker_group and _parse_with_single_worker:
\* the finally clause closes the worker whether or not an exception is passing
\* (TaskEndNoFinally: close only after a normal return)
TaskEndNoFinally(worker) ==
    IF worker.failed # "" THEN [worker EXCEPT !.pc = "done"]
    ELSE [Close(worker) EXCEPT !.pc = "done"]
TaskEnd(worker) == [Close(worker) EXCEPT !.pc = "done"]

\* OzonWorker.initialize with the outcome o of setup_driver
Initialized(worker, o) ==
    [worker EXCEPT !.driver = (o = "driver"),
                   !.open = (o \in {"driver", "raises_partial"}),
                   !.failed = IF o \in {"raises", "raises_partial"} THEN "initialize" ELSE ""]

\* the guard at the head of OzonWorker.parse_articles
Guarded(worker) ==
    IF worker.driver THEN worker ELSE [worker EXCEPT !.failed = "parse_articles"]

\* how one attempt of parse_single_article can go, by the step that ends it
AttemptKinds ==
    {"navigate_raises", "navigate_false", "navigate_false_debug_raises",
     "debug_raises", "wait_raises", "no_json", "extract_none", "success"}

\* str(e) of an exception caught in parse_single_article
ExceptionText == "exception"

\* for attempt in range(settings.MAX_RETRIES) (InRangeOneMore: one more pass)
InRangeOneMore(attempt) == attempt < MAX_RETRIES + 1
InRange(attempt) == attempt < MAX_RETRIES

\* if attempt < settings.MAX_RETRIES - 1 (CanRetryOffByOne: the test against
\* MAX_RETRIES)
CanRetryOffByOne(attempt) == attempt < MAX_RETRIES
CanRetry(attempt) == attempt < MAX_RETRIES - 1

\* sleep and continue, or return the failure (RetryWithoutSleep: continue at
\* once; RetryAlways: continue on the final attempt too)
RetryWithoutSleep(article, attempt, error) ==
    IF CanRetry(attempt)
    THEN [result |-> None, sleep |-> FALSE]
    ELSE [result |-> Some(FailureResult(article, error)), sleep |-> FALSE]
RetryAlways(article, attempt, error) == [result |-> None, sleep |-> TRUE]
RetryOrFail(article, attempt, error) ==
    IF CanRetry(attempt)
    THEN [result |-> None, sleep |-> TRUE]
    ELSE [result |-> Some(FailureResult(article, error)), sleep |-> FALSE]

\* the result built when extraction gave a record (SuccessWithError: the same
\* with an error text left in it)
SuccessWithError(article, price_info) ==
    [article |-> article, success |-> TRUE, price_info |-> Some(price_info),
     error |-> Some("Failed to extract price info")]
ExtractedResult(article, price_info) == SuccessResult(article, price_info)

\* one pass through the body of the retry loop
AttemptStep(article, attempt, kind, price) ==
    CASE kind = "navigate_false" -> RetryOrFail(article, attempt, "Failed to navigate to URL")
      [] kind = "no_json" -> RetryOrFail(article, attempt, "No JSON response received")
      [] kind = "extract_none" -> RetryOrFail(article, attempt, "Failed to extract price info")
      [] kind = "success" -> [result |-> Some(ExtractedResult(article, price)), sleep |-> FALSE]
      [] OTHER -> RetryOrFail(article, attempt, ExceptionText)

\* the return after the loop
ExhaustedResult(article) == FailureResult(article, "Max retries exceeded")

\* results.append(result) in OzonWorker.parse_articles, and the return of the
\* list after the last article (AppendedStopOnFailure: the loop left at the
\* first failed result; AppendedKeepsAttempt: the attempt number carried over
\* to the next article)
AppendedStopOnFailure(worker, result) ==
    LET next == [worker EXCEPT !.results = Append(@, result), !.i = @ + 1,
                               !.attempt = 0, !.navs = 0, !.sleeps = 0]
    IN IF worker.i = Len(worker.group) \/ ~result.success THEN TaskEnd(next) ELSE next
AppendedKeepsAttempt(worker, result) ==
    LET next == [worker EXCEPT !.results = Append(@, result), !.i = @ + 1]
    IN IF worker.i = Len(worker.group) THEN TaskEnd(next) ELSE next
Appended(worker, result) ==
    LET next == [worker EXCEPT !.results = Append(@, result), !.i = @ + 1,
                               !.attempt = 0, !.navs = 0, !.sleeps = 0]
    IN IF worker.i = Len(worker.group) THEN TaskEnd(next) ELSE next

\* ------------------------------------------------------------------ actions
Init ==
    /\ MAX_WORKERS \in 1..MaxWorkersCfg
    /\ MAX_ARTICLES_PER_WORKER \in 1..MaxPerWorkerCfg
    /\ MAX_RETRIES \in 0..MaxRetriesCfg
    /\ articles \in {s \in SeqsUpTo(Ids, MaxArticles) : FirstUse(s)}
    /\ pc = "start"
    /\ worker_groups = << >>
    /\ pool = FALSE
    /\ workers = << >>
    /\ all_results = << >>
    /\ collected = {}
    /\ returned = << >>
    /\ navigated = {}
    /\ call = [pc |-> "idle"]
    /\ extraction = [pc |-> "idle"]

\* OzonParser.parse_articles up to the point where the workers run
ParseArticles ==
    /\ pc = "start"
    /\ LET groups == _distribute_articles(articles)
       IN /\ worker_groups' = groups
          /\ IF Len(groups) = 1
             THEN /\ workers' = <<NewWorker(SingleWorkerInput(groups), 0)>>
                  /\ pool' = FALSE
                  /\ pc' = "single"
             ELSE /\ workers' = [g \in DOMAIN groups |->
                                   NewWorker(groups[g], (g - 1) * MAX_ARTICLES_PER_WORKER)]
                  /\ pool' = TRUE
                  /\ pc' = "collect"
    /\ UNCHANGED <<settings, apart, articles, all_results, collected, returned, navigated>>

\* worker.initialize() and the entry of worker.parse_articles(articles); the
\* task ends here when either raises or when the group is empty
WorkerInitialize(w) ==
    /\ workers[w].pc = "init"
    /\ \E o \in InitOutcomes :
         LET inited == Initialized(workers[w], o)
             entered == IF inited.failed # "" THEN inited ELSE Guarded(inited)
         IN workers' = [workers EXCEPT ![w] =
                IF entered.failed # "" \/ Len(entered.group) = 0
                THEN TaskEnd(entered)
                ELSE [entered EXCEPT !.pc = "loop"]]
    /\ UNCHANGED <<settings, apart, articles, pc, worker_groups, pool, all_results,
                   collected, returned, navigated>>

\* one attempt of parse_single_article for the next article of the group, or
\* the return after a loop that has no attempt left
WorkerAttempt(w) ==
    /\ workers[w].pc = "loop"
    /\ LET me == workers[w]
           article == me.group[me.i]
       IN IF ~InRange(me.attempt)
          THEN /\ workers' = [workers EXCEPT ![w] =
                     Appended([me EXCEPT !.succeeded = FALSE], ExhaustedResult(article))]
               /\ UNCHANGED navigated
          ELSE /\ \E kind \in AttemptKinds, price \in Prices :
                    LET step == AttemptStep(article, me.attempt, kind, price)
                        tried == [me EXCEPT !.succeeded = (kind = "success")]
                    IN workers' = [workers EXCEPT ![w] =
                         IF step.result = None
                         THEN [tried EXCEPT !.attempt = @ + 1, !.navs = @ + 1,
                                            !.sleeps = @ + (IF step.sleep THEN 1 ELSE 0)]
                         ELSE Appended(tried, step.result[1])]
               /\ navigated' = navigated \cup {me.base + me.i}
    /\ UNCHANGED <<settings, apart, articles, pc, worker_groups, pool, all_results,
                   collected, returned>>

\* _parse_with_single_worker returns what its worker returned
SingleReturn ==
    /\ pc = "single"
    /\ workers[1].pc = "done"
    /\ workers[1].failed = ""
    /\ returned' = workers[1].results
    /\ pc' = "returned"
    /\ UNCHANGED <<settings, apart, articles, worker_groups, pool, workers, all_results,
                   collected, navigated>>

\* _parse_with_single_worker lets the worker's exception through
SingleRaise ==
    /\ pc = "single"
    /\ workers[1].pc = "done"
    /\ workers[1].failed # ""
    /\ pc' = "raised"
    /\ UNCHANGED <<settings, apart, articles, worker_groups, pool, workers, all_results,
                   collected, returned, navigated>>

\* as_completed yields a finished future and future.result() gives its list
Collect(w) ==
    /\ pc = "collect"
    /\ w \notin collected
    /\ workers[w].pc = "done"
    /\ workers[w].failed = ""
    /\ all_results' = all_results \o workers[w].results
    /\ collected' = collected \cup {w}
    /\ UNCHANGED <<settings, apart, articles, pc, worker_groups, pool, workers, returned,
                   navigated>>

\* future.result() raises what the task raised: the with block is left
CollectRaises(w) ==
    /\ pc = "collect"
    /\ w \notin collected
    /\ workers[w].pc = "done"
    /\ workers[w].failed # ""
    /\ pc' = "unwind"
    /\ UNCHANGED <<settings, apart, articles, worker_groups, pool, workers, all_results,
                   collected, returned, navigated>>

\* leaving the with block: ThreadPoolExecutor.__exit__ is shutdown(wait=True),
\* which returns once every submitted task has ended (ShutdownWithoutWait: a
\* shutdown that does not wait)
ShutdownWithoutWait == TRUE
ShutdownWaited == \A w \in DOMAIN workers : workers[w].pc = "done"

\* the executor's shutdown has waited for every task: the exception leaves
\* parse_articles
Propagate ==
    /\ pc = "unwind"
    /\ ShutdownWaited
    /\ pc' = "raised"
    /\ UNCHANGED <<settings, apart, articles, worker_groups, pool, workers, all_results,
                   collected, returned, navigated>>

\* every future was collected: the with block ends and the merged list is
\* returned
ReturnSorted ==
    /\ pc = "collect"
    /\ collected = DOMAIN workers
    /\ ShutdownWaited
    /\ returned' = _sort_results_by_original_order(all_results, articles)
    /\ pc' = "returned"
    /\ UNCHANGED <<settings, apart, articles, worker_groups, pool, workers, all_results,
                   collected, navigated>>

Next ==
    \/ ParseArticles
    \/ \E w \in DOMAIN workers : WorkerInitialize(w)
    \/ \E w \in DOMAIN workers : WorkerAttempt(w)
    \/ SingleReturn
    \/ SingleRaise
    \/ \E w \in DOMAIN workers : Collect(w)
    \/ \E w \in DOMAIN workers : CollectRaises(w)
    \/ Propagate
    \/ ReturnSorted

Spec == Init /\ [][Next]_vars

\* ------------------------------------------------------------------ one call
\* One call of parse_single_article followed on its own, with what every
\* collaborator did in each attempt: navigate_to_url, the debug reads (the
\* driver's current_url, title and page_source after a failed navigation,
\* debug_page_content after a successful one), wait_for_json_response and
\* extract_price_info (0: no record).
NavOutcomes == {"raises", "false", "true"}
DebugOutcomes == {"ok", "raises"}
PayloadOutcomes == {"raises", "empty", "text"}
ExtractOutcomes == {0} \cup Prices

\* the step of the loop body at which an attempt with outcome o ends
KindOf(o) ==
    IF o.nav = "raises" THEN "navigate_raises"
    ELSE IF o.nav = "false"
         THEN IF o.debug = "raises" THEN "navigate_false_debug_raises" ELSE "navigate_false"
    ELSE IF o.debug = "raises" THEN "debug_raises"
    ELSE IF o.payload = "raises" THEN "wait_raises"
    ELSE IF o.payload = "empty" THEN "no_json"
    ELSE IF o.extract = 0 THEN "extract_none"
    ELSE "success"

\* parse_single_article run from attempt number attempt on, the collaborators
\* behaving as outcomes says: its result and the number of attempts made
RECURSIVE RunCall(_, _, _)
RunCall(article, outcomes, attempt) ==
    IF ~InRange(attempt)
    THEN [result |-> ExhaustedResult(article), attempts |-> attempt]
    ELSE LET o == outcomes[attempt + 1]
             step == AttemptStep(article, attempt, KindOf(o), o.extract)
         IN IF step.result = None THEN RunCall(article, outcomes, attempt + 1)
            ELSE [result |-> step.result[1], attempts |-> attempt + 1]

RetryInit ==
    /\ MAX_WORKERS = 1
    /\ MAX_ARTICLES_PER_WORKER = 1
    /\ MAX_RETRIES \in -1..MaxRetriesCfg
    /\ articles = << >>
    /\ pc = "idle"
    /\ worker_groups = << >>
    /\ pool = FALSE
    /\ workers = << >>
    /\ all_results = << >>
    /\ collected = {}
    /\ returned = << >>
    /\ navigated = {}
    /\ extraction = [pc |-> "idle"]
    /\ \E article \in Ids :
         call = [pc |-> "running", article |-> article, attempt |-> 0, navs |-> 0,
                 sleeps |-> 0, outcomes |-> << >>, result |-> None]

\* one pass through the loop body of parse_single_article
CallAttempt ==
    /\ call.pc = "running"
    /\ InRange(call.attempt)
    /\ \E nav \in NavOutcomes, debug \in DebugOutcomes, payload \in PayloadOutcomes,
          extract \in ExtractOutcomes :
         LET o == [nav |-> nav, debug |-> debug, payload |-> payload, extract |-> extract]
             step == AttemptStep(call.article, call.attempt, KindOf(o), extract)
             made == [call EXCEPT !.navs = @ + 1, !.outcomes = Append(@, o),
                                  !.sleeps = @ + (IF step.sleep THEN 1 ELSE 0)]
         IN call' = IF step.result = None
                    THEN [made EXCEPT !.attempt = @ + 1]
                    ELSE [made EXCEPT !.result = step.result, !.pc = "returned"]
    /\ UNCHANGED <<settings, articles, pc, worker_groups, pool, workers, all_results,
                   collected, returned, navigated, extraction>>

\* the loop has no pass left: the return after it
CallExhausted ==
    /\ call.pc = "running"
    /\ ~InRange(call.attempt)
    /\ call' = [call EXCEPT !.result = Some(ExhaustedResult(call.article)),
                            !.pc = "returned"]
    /\ UNCHANGED <<settings, articles, pc, worker_groups, pool, workers, all_results,
                   collected, returned, navigated, extraction>>

RetryNext ==
    \/ CallAttempt
    \/ CallExhausted

RetrySpec == RetryInit /\ [][RetryNext]_vars

\* ------------------------------------------------------------- one extraction
\* One call of extract_price_info followed on its own. A payload is described
\* by what each step does with it: is_valid_json_response, json.loads (a JSON
\* object, another JSON value, or JSONDecodeError), the widgetStates entry of
\* the object, find_web_price_property, parse_price_data (with the price it
\* parses) and find_product_title.
ValidOutcomes == {"raises", "false", "true"}
LoadsOutcomes == {"error", "other", "object"}
WidgetOutcomes == {"absent", "empty", "present"}
WebPriceOutcomes == {"raises", "none", "found"}
ParseOutcomes == {"raises", "none", "record"}
TitleOutcomes == {"raises", "none", "found"}
TitleText == "title"

Payloads ==
    [valid : ValidOutcomes, loads : LoadsOutcomes, widgets : WidgetOutcomes,
     web_price : WebPriceOutcomes, parse : ParseOutcomes, price : Prices,
     title : TitleOutcomes]

\* the PriceInfo of parse_price_data, with the title the call attached
PriceInfo(price, title) == [price |-> price, title |-> title]

\* the try block of extract_price_info: the value it returns, or the
\* exception that leaves it
Returns(value) == [raised |-> "none", value |-> value]
Raises(exception) == [raised |-> exception, value |-> None]
TryBlock(json_content) ==
    IF json_content.valid = "raises" THEN Raises("Exception")
    ELSE IF json_content.valid = "false" THEN Returns(None)
    ELSE IF json_content.loads = "error" THEN Raises("JSONDecodeError")
    ELSE IF json_content.loads = "other" THEN Raises("Exception")
    ELSE IF json_content.widgets # "present" THEN Returns(None)
    ELSE IF json_content.web_price = "raises" THEN Raises("Exception")
    ELSE IF json_content.web_price = "none" THEN Returns(None)
    ELSE IF json_content.parse = "raises" THEN Raises("Exception")
    ELSE IF json_content.parse = "none" THEN Returns(None)
    ELSE IF json_content.title = "raises" THEN Raises("Exception")
    ELSE Returns(Some(PriceInfo(json_content.price,
                                IF json_content.title = "found"
                                THEN Some(TitleText) ELSE None)))

\* the two except clauses: both return None
extract_price_info(json_content) ==
    LET body == TryBlock(json_content)
    IN IF body.raised \in {"JSONDecodeError", "Exception"}
       THEN Returns(None)
       ELSE body

ExtractInit ==
    /\ MAX_WORKERS = 1
    /\ MAX_ARTICLES_PER_WORKER = 1
    /\ MAX_RETRIES = 1
    /\ articles = << >>
    /\ pc = "idle"
    /\ worker_groups = << >>
    /\ pool = FALSE
    /\ workers = << >>
    /\ all_results = << >>
    /\ collected = {}
    /\ returned = << >>
    /\ navigated = {}
    /\ call = [pc |-> "idle"]
    /\ \E json_content \in Payloads :
         extraction = [pc |-> "called", json_content |-> json_content,
                       raised |-> "none", value |-> None]

ExtractPriceInfo ==
    /\ extraction.pc = "called"
    /\ LET out == extract_price_info(extraction.json_content)
       IN extraction' = [extraction EXCEPT !.pc = "returned", !.raised = out.raised,
                                           !.value = out.value]
    /\ UNCHANGED <<settings, articles, pc, worker_groups, pool, workers, all_results,
                   collected, returned, navigated, call>>

ExtractNext == ExtractPriceInfo

ExtractSpec == ExtractInit /\ [][ExtractNext]_vars

\* ------------------------------------------------------------------ properties
Articles(results) == [k \in DOMAIN results |-> results[k].article]
Capacity == MAX_ARTICLES_PER_WORKER * MAX_WORKERS
Ended == pc \in {"returned", "raised"}
Distinct(s) == \A j, k \in DOMAIN s : s[j] = s[k] => j = k
Last(s) == s[Len(s)]

\* C1: whatever the order in which the workers finish, the identifiers of the
\* returned list are the input list with the positions of the identifiers that
\* have no result removed.
C1_OutputOrderedLikeInput ==
    pc = "returned" =>
        Articles(returned) =
            SelectSeq(articles, LAMBDA a : a \in {returned[k].article : k \in DOMAIN returned})

\* a pool run whose workers were collected in another order than the input's
C1_Witness ==
    /\ pc = "returned"
    /\ pool
    /\ Len(returned) >= 2
    /\ Articles(all_results) # Articles(returned)

\* C2 (as claimed): no navigation is ever started for an input position beyond
\* the first MAX_ARTICLES_PER_WORKER * MAX_WORKERS, for every MAX_WORKERS >= 1.
C2_RemainderNeverScheduled ==
    \A p \in navigated : p <= Capacity

\* C3 (as claimed): with MAX_WORKERS >= 2 and an input longer than the capacity,
\* a normal return has exactly MAX_ARTICLES_PER_WORKER * MAX_WORKERS entries.
C3_ExactlyCapacityEntries ==
    (pc = "returned" /\ MAX_WORKERS >= 2 /\ Len(articles) > Capacity) =>
        Len(returned) = Capacity

\* C3 (amended): with MAX_WORKERS >= 2 and an input longer than the capacity, a
\* normal return has one entry for each input position whose identifier occurs
\* among the first MAX_ARTICLES_PER_WORKER * MAX_WORKERS positions and none for
\* the other positions; it has exactly MAX_ARTICLES_PER_WORKER * MAX_WORKERS
\* entries when the identifiers of the input are pairwise distinct.
C3_EntriesOfScheduledIdentifiers ==
    (pc = "returned" /\ MAX_WORKERS >= 2 /\ Len(articles) > Capacity) =>
        LET scheduled == {articles[p] : p \in 1..Capacity}
        IN /\ Articles(returned) = SelectSeq(articles, LAMBDA a : a \in scheduled)
           /\ Distinct(articles) => Len(returned) = Capacity

\* an over-long input of distinct identifiers, returned cut to the capacity
C3_Witness ==
    /\ pc = "returned"
    /\ MAX_WORKERS >= 2
    /\ Len(articles) > Capacity
    /\ Distinct(articles)
    /\ Len(returned) = Capacity

\* C4 (as claimed): on the pool path, when initialize raised in exactly one
\* task and nothing else raised, the call returns the results of the other
\* groups in input order.
C4_OtherGroupsReturned ==
    (/\ pool
     /\ Ended
     /\ Cardinality({w \in DOMAIN workers : workers[w].failed = "initialize"}) = 1
     /\ \A w \in DOMAIN workers : workers[w].failed # "parse_articles") =>
        /\ pc = "returned"
        /\ LET others == UNION {{workers[w].group[k] : k \in DOMAIN workers[w].group} :
                                   w \in {v \in DOMAIN workers : workers[v].failed = ""}}
           IN Articles(returned) = SelectSeq(articles, LAMBDA a : a \in others)

\* C5 (as claimed): parse_articles never ends with an exception.
C5_NeverRaises == pc # "raised"

\* C6: a step of parse_single_article never raises; it navigates only while
\* fewer than MAX_RETRIES navigations were made for the identifier; it either
\* returns or moves to a later attempt below MAX_RETRIES, so the loop ends; and
\* a return whose latest attempt extracted no record has success = false and an
\* error.
C6_RetryBounded ==
    [][\A w \in DOMAIN workers :
         (w \in DOMAIN workers' /\ workers[w].pc = "loop" /\ workers'[w] # workers[w]) =>
            LET before == workers[w]
                after == workers'[w]
                returns == Len(after.results) = Len(before.results) + 1
                result == Last(after.results)
                navigates == ~(returns /\ result.error = Some("Max retries exceeded"))
            IN /\ after.failed = ""
               /\ navigates => before.navs < MAX_RETRIES
               /\ \/ returns
                  \/ /\ after.results = before.results
                     /\ after.pc = "loop"
                     /\ after.attempt = before.attempt + 1
                     /\ after.attempt < MAX_RETRIES
               /\ (returns /\ ~after.succeeded) =>
                     (~result.success /\ result.error # None)]_vars

\* every one of at least two attempts failed and a failure came back
C6_Witness ==
    /\ MAX_RETRIES >= 2
    /\ \E w \in DOMAIN workers : \E k \in DOMAIN workers[w].results :
         /\ ~workers[w].results[k].success
         /\ workers[w].results[k].error = Some("No JSON response received")

\* C7: close is called exactly once for every worker, on every way out of its
\* task, and a worker whose task has ended holds no open resource; when the
\* call has ended every task has.
C7_ClosedExactlyOnce ==
    /\ \A w \in DOMAIN workers :
         IF workers[w].pc = "done"
         THEN workers[w].closes = 1 /\ ~workers[w].open
         ELSE workers[w].closes = 0
    /\ Ended => \A w \in DOMAIN workers : workers[w].pc = "done"

\* the call has ended with one task ended by initialize and one that returned
C7_Witness ==
    /\ Ended
    /\ \E w \in DOMAIN workers : workers[w].failed = "initialize" /\ workers[w].closes = 1
    /\ \E w \in DOMAIN workers : workers[w].failed = "" /\ workers[w].closes = 1

\* C8 (as claimed): on both paths, entries of the returned list that carry the
\* same identifier are the same result.
C8_DuplicatesSameResult ==
    pc = "returned" =>
        \A j, k \in DOMAIN returned :
            returned[j].article = returned[k].article => returned[j] = returned[k]

\* what C9 says _distribute_articles returns
C9_Groups ==
    LET n == Len(articles)
        cap == MAX_ARTICLES_PER_WORKER
    IN IF n <= cap THEN <<articles>>
       ELSE [g \in 1..Min2(CeilDiv(n, cap), MAX_WORKERS) |->
                SubSeq(articles, (g - 1) * cap + 1, Min2(g * cap, n))]

\* C9: an input of at most MAX_ARTICLES_PER_WORKER identifiers gives one group,
\* the whole input, run by one worker without a pool; a longer one gives
\* min(ceil(len / MAX_ARTICLES_PER_WORKER), MAX_WORKERS) groups, group i being
\* the slice that starts at i * MAX_ARTICLES_PER_WORKER with at most
\* MAX_ARTICLES_PER_WORKER elements.
C9_Partition ==
    pc # "start" =>
        /\ worker_groups = C9_Groups
        /\ Len(articles) <= MAX_ARTICLES_PER_WORKER =>
             (~pool /\ Len(workers) = 1 /\ workers[1].group = articles)

\* a pool run whose last group is a partial slice
C9_Witness ==
    /\ pool
    /\ Len(worker_groups) >= 2
    /\ Len(Last(worker_groups)) < MAX_ARTICLES_PER_WORKER

\* C10: every result of parse_single_article carries the identifier it was
\* called with, has price_info and no error when success is true, and an error
\* and no price_info when success is false.
C10_ResultWellFormed ==
    \A w \in DOMAIN workers : \A k \in DOMAIN workers[w].results :
        LET r == workers[w].results[k]
        IN /\ r.article = workers[w].group[k]
           /\ r.success <=> (r.price_info # None)
           /\ r.success <=> (r.error = None)

\* one worker has produced a success and a failure
C10_Witness ==
    \E w \in DOMAIN workers : \E j, k \in DOMAIN workers[w].results :
        workers[w].results[j].success /\ ~workers[w].results[k].success

\* C11: on the pool path the call neither returns a merged list nor raises
\* while a task is still running, also when a task ended with an exception:
\* as long as a task runs the coordinator is collecting or waiting in the
\* executor's shutdown and nothing was merged.
C11_JoinBeforeMerge ==
    pool =>
        /\ Ended => \A w \in DOMAIN workers : workers[w].pc = "done"
        /\ (\E w \in DOMAIN workers : workers[w].pc # "done") =>
              (pc \in {"collect", "unwind"} /\ returned = << >>)
        /\ pc = "returned" => collected = DOMAIN workers

\* a task's exception was taken from its future while another task still runs
C11_Witness ==
    /\ pc = "unwind"
    /\ \E w \in DOMAIN workers : workers[w].pc = "loop"

\* the results of all tasks, joined in group order
RECURSIVE GroupOrderResults(_)
GroupOrderResults(n) ==
    IF n = 0 THEN << >> ELSE GroupOrderResults(n - 1) \o workers[n].results

\* C12 (as claimed): the list returned on the pool path is fixed by the input
\* and the results of the fetches, whatever the order in which the tasks
\* finish; so it is the list the run that collects the same results in group
\* order returns.
C12_CompletionOrderIrrelevant ==
    (pc = "returned" /\ pool) =>
        returned = _sort_results_by_original_order(GroupOrderResults(Len(workers)), articles)

\* C16: a task that got a driver returns one result per position of its group;
\* a failed result does not end the loop while identifiers are left; and a
\* step of one worker changes no other worker.
C16_FailuresDoNotStopTheGroup ==
    [][\A w \in DOMAIN workers :
         w \in DOMAIN workers' =>
            LET before == workers[w]
                after == workers'[w]
            IN /\ (after.pc = "done" /\ after.failed = "") =>
                     Len(after.results) = Len(after.group)
               /\ (before.pc = "loop" /\ before.i < Len(before.group)
                   /\ Len(after.results) = Len(before.results) + 1) =>
                     (after.pc = "loop" /\ after.i = before.i + 1)
               /\ after # before =>
                     \A v \in DOMAIN workers \ {w} : workers'[v] = workers[v]]_vars

\* a task returned a full list although its first fetch failed
C16_Witness ==
    \E w \in DOMAIN workers :
        /\ workers[w].pc = "done"
        /\ workers[w].failed = ""
        /\ Len(workers[w].group) >= 2
        /\ Len(workers[w].results) = Len(workers[w].group)
        /\ ~workers[w].results[1].success

\* C17: a step of a worker is one attempt for the identifier at its current
\* position: it either moves to the next attempt for the same identifier, the
\* attempt just made having failed, or appends that identifier's result and
\* moves to the first attempt of the next position; results exist for exactly
\* the earlier positions, in the order of the group.
C17_SequentialWithinWorker ==
    [][\A w \in DOMAIN workers :
         (w \in DOMAIN workers' /\ workers[w].pc = "loop" /\ workers'[w] # workers[w]) =>
            LET before == workers[w]
                after == workers'[w]
            IN /\ Len(before.results) = before.i - 1
               /\ \/ /\ after.results = before.results
                     /\ after.i = before.i
                     /\ after.attempt = before.attempt + 1
                     /\ ~after.succeeded
                  \/ /\ Len(after.results) = Len(before.results) + 1
                     /\ SubSeq(after.results, 1, Len(before.results)) = before.results
                     /\ Last(after.results).article = before.group[before.i]
                     /\ after.i = before.i + 1
                     /\ after.attempt = 0
               /\ Articles(after.results) = SubSeq(after.group, 1, Len(after.results))]_vars

\* a worker is at a later attempt for the second identifier of its group
C17_Witness ==
    \E w \in DOMAIN workers :
        /\ workers[w].pc = "loop"
        /\ workers[w].i = 2
        /\ workers[w].attempt >= 1
        /\ Len(workers[w].results) = 1

C13_FirstSuccessReturns ==
    LET k == Len(call.outcomes) IN
    /\ \A j \in 1..k :
         KindOf(call.outcomes[j]) = "success" => (j = k /\ call.pc = "returned")
    /\ (call.pc = "returned" /\ k >= 1 /\ KindOf(call.outcomes[k]) = "success") =>
         /\ call.result = Some(SuccessResult(call.article, call.outcomes[k].extract))
         /\ call.navs = k
         /\ call.sleeps = k - 1

\* the second attempt was the first to succeed
C13_Witness ==
    /\ call.pc = "returned"
    /\ Len(call.outcomes) = 2
    /\ KindOf(call.outcomes[2]) = "success"

\* the error text C14 gives for the way the final attempt failed
C14_ErrorOf(kind) ==
    CASE kind = "navigate_false" -> "Failed to navigate to URL"
      [] kind = "no_json" -> "No JSON response received"
      [] kind = "extract_none" -> "Failed to extract price info"
      [] OTHER -> ExceptionText

\* C14: when all MAX_RETRIES attempts fail (MAX_RETRIES >= 1) the error of the
\* result is that of the final attempt alone, and the call has slept after
\* every failed attempt but the final one: MAX_RETRIES - 1 times.
C14_FinalFailureReported ==
    LET k == Len(call.outcomes) IN
    /\ call.pc = "running" => (call.sleeps = k /\ call.attempt = k)
    /\ (call.pc = "returned" /\ k >= 1 /\ KindOf(call.outcomes[k]) # "success") =>
         /\ k = MAX_RETRIES
         /\ call.result =
               Some(FailureResult(call.article, C14_ErrorOf(KindOf(call.outcomes[k]))))
         /\ call.sleeps = MAX_RETRIES - 1

\* two attempts failed in different ways and the call returned the failure
C14_Witness ==
    /\ call.pc = "returned"
    /\ Len(call.outcomes) = 2
    /\ KindOf(call.outcomes[1]) = "navigate_false"
    /\ KindOf(call.outcomes[2]) = "no_json"
    /\ ~call.result[1].success

\* the same outcomes with every debug read succeeding
DebugOk(outcomes) == [k \in DOMAIN outcomes |-> [outcomes[k] EXCEPT !.debug = "ok"]]

\* C15 (as claimed): the result and the number of attempts of a call are
\* those of the call with the same navigation, payload and extraction outcomes
\* whose debug reads all succeed.
C15_DebugReadsIrrelevant ==
    call.pc = "returned" =>
        LET same == RunCall(call.article, DebugOk(call.outcomes), 0)
        IN /\ call.result = Some(same.result)
           /\ Len(call.outcomes) = same.attempts

\* C19: the result "Max retries exceeded" is returned exactly when
\* MAX_RETRIES <= 0, and then without any navigation; with MAX_RETRIES >= 1 a
\* call navigates and returns from inside the loop.
C19_ExhaustedOnlyWithoutRetries ==
    call.pc = "returned" =>
        /\ (call.result = Some(ExhaustedResult(call.article))) <=> (MAX_RETRIES <= 0)
        /\ MAX_RETRIES <= 0 => (call.navs = 0 /\ call.outcomes = << >>)
        /\ MAX_RETRIES >= 1 => call.navs >= 1

\* every attempt of a call with MAX_RETRIES >= 2 failed
C19_Witness ==
    /\ call.pc = "returned"
    /\ MAX_RETRIES >= 2
    /\ Len(call.outcomes) = MAX_RETRIES
    /\ ~call.result[1].success

\* the four mandatory steps succeed on a payload: it is well-formed JSON, has
\* a non-empty widgetStates collection, a price entry is found in it and the
\* entry parses into price fields
C20_MandatoryStepsSucceed(json_content) ==
    /\ json_content.valid = "true"
    /\ json_content.loads = "object"
    /\ json_content.widgets = "present"
    /\ json_content.web_price = "found"
    /\ json_content.parse = "record"

\* C20 (as claimed): extract_price_info never raises; it returns a record
\* exactly when the four mandatory steps succeed and none otherwise; the
\* record has the parsed price whatever the title search does, which decides
\* only the title attached.
C20_RecordExactlyWhenMandatoryStepsSucceed ==
    extraction.pc = "returned" =>
        LET json_content == extraction.json_content IN
        /\ extraction.raised = "none"
        /\ (extraction.value # None) <=> C20_MandatoryStepsSucceed(json_content)
        /\ extraction.value # None =>
             /\ extraction.value[1].price = json_content.price
             /\ (extraction.value[1].title # None) <=> (json_content.title = "found")

====
